---------------------------- MODULE Spec2Model ----------------------------
(***************************************************************************)
(* deadlock/core.py: the passphrase gate (check_passphrase,                *)
(* make_random_phrase, make_lock_securely), the file operations            *)
(* (encrypt_file, encrypt_folder, decrypt_file) and the command line       *)
(* modes (main_encrypt, main_decrypt, main_generate).                      *)
(*                                                                         *)
(* Strings and byte strings are sequences of character codes (0..255).     *)
(* A passphrase is the sequence of its words (the words the user separates *)
(* with spaces), each word a sequence of character codes.                  *)
(***************************************************************************)
EXTENDS Integers, Sequences, FiniteSets, TLC

(***************************************************************************)
(* Bounds of the model.                                                    *)
(***************************************************************************)
\* invocations of the program (main, or a direct call of the library)
MaxRuns == 2

(***************************************************************************)
(* Settings (core.py 26-28).                                               *)
(***************************************************************************)
minPassphraseEntropy == 100
minKeyEntropy == 100

(***************************************************************************)
(* Character codes.                                                        *)
(***************************************************************************)
At == 64
Dot == 46
Space == 32

\* "x", "q", "w": the words of the model
Wx == <<120>>
Wq == <<113>>
Ww == <<119>>

(***************************************************************************)
(* Python's str.split(sep) and str.rsplit(sep, 1)[0] on one-character      *)
(* separators.                                                             *)
(***************************************************************************)
RECURSIVE split(_, _)
split(s, sep) ==
    IF \A i \in 1..Len(s) : s[i] # sep
    THEN <<s>>
    ELSE LET i == CHOOSE k \in 1..Len(s) :
                     s[k] = sep /\ \A j \in 1..(k - 1) : s[j] # sep
         IN  <<SubSeq(s, 1, i - 1)>> \o split(SubSeq(s, i + 1, Len(s)), sep)

rsplit1_0(s, sep) ==
    IF \A i \in 1..Len(s) : s[i] # sep
    THEN s
    ELSE LET i == CHOOSE k \in 1..Len(s) :
                     s[k] = sep /\ \A j \in (k + 1)..Len(s) : s[j] # sep
         IN  SubSeq(s, 1, i - 1)

\* the part of s after the last sep, all of s when there is none
rsplitTail(s, sep) ==
    IF \A i \in 1..Len(s) : s[i] # sep
    THEN s
    ELSE LET i == CHOOSE k \in 1..Len(s) :
                     s[k] = sep /\ \A j \in (k + 1)..Len(s) : s[j] # sep
         IN  SubSeq(s, i + 1, Len(s))

\* core.py 31-36: user and domain of the email; both the whole string when
\* the unpacking of email.split("@") raises (not exactly two parts).
user_inputs(email) ==
    LET parts == split(email, At)
    IN  IF Len(parts) = 2
        THEN <<parts[1], rsplit1_0(parts[2], Dot)>>
        ELSE <<email, email>>

(***************************************************************************)
(* zxcvbn.password_strength(pp, user_inputs): the strength estimator.      *)
(* A word that is one of the user inputs is a rank-1 dictionary match and  *)
(* adds nothing; every other word adds bitsPerWord bits.                   *)
(***************************************************************************)
bitsPerWord == 20

RECURSIVE entropyOf(_, _)
entropyOf(pp, inputs) ==
    IF pp = <<>> THEN 0
    ELSE (IF \E i \in 1..Len(inputs) : inputs[i] = Head(pp)
          THEN 0 ELSE bitsPerWord)
         + entropyOf(Tail(pp), inputs)

password_strength(pp, inputs) == [entropy |-> entropyOf(pp, inputs)]

\* core.py 30-41
check_passphrase_lowThreshold(pp, email) ==
    LET score == password_strength(pp, user_inputs(email))
    IN  IF score.entropy >= minKeyEntropy - bitsPerWord
        THEN <<TRUE, score>> ELSE <<FALSE, score>>

check_passphrase(pp, email) ==
    LET score == password_strength(pp, user_inputs(email))
    IN  IF score.entropy >= minKeyEntropy
        THEN <<TRUE, score>> ELSE <<FALSE, score>>


(***************************************************************************)
(* crypto.UserLock: the identity of a user.  The key pair is a             *)
(* Diffie-Hellman pair in the multiplicative group modulo groupP; the      *)
(* secret key comes from a key-derivation fold of the passphrase salted    *)
(* with the normalised email; the identifier is version, public key and    *)
(* checksum.                                                               *)
(***************************************************************************)
groupP == 251
groupG == 6
idVersion == 1

RECURSIVE powMod(_, _, _)
powMod(b, e, m) ==
    IF e = 0 THEN 1
    ELSE LET h == powMod(b, e \div 2, m)
         IN  IF e % 2 = 0 THEN (h * h) % m ELSE (h * h * b) % m

RECURSIVE foldBytes(_, _)
foldBytes(s, h) ==
    IF s = <<>> THEN h ELSE foldBytes(Tail(s), (h * 31 + Head(s)) % groupP)

RECURSIVE joinWords(_)
joinWords(pp) ==
    IF pp = <<>> THEN <<>>
    ELSE IF Len(pp) = 1 THEN pp[1]
    ELSE pp[1] \o <<Space>> \o joinWords(Tail(pp))

RECURSIVE trimLeft(_)
trimLeft(s) ==
    IF s # <<>> /\ Head(s) = Space THEN trimLeft(Tail(s)) ELSE s

RECURSIVE trimRight(_)
trimRight(s) ==
    IF s # <<>> /\ s[Len(s)] = Space
    THEN trimRight(SubSeq(s, 1, Len(s) - 1)) ELSE s

caseFold(s) == [i \in 1..Len(s) |-> IF s[i] \in 65..90 THEN s[i] + 32 ELSE s[i]]

normaliseEmail(e) == caseFold(trimRight(trimLeft(e)))

publicKeyOf(sk) == powMod(groupG, sk, groupP)

checksumOf(version, pk) == (version * 131 + pk * 17 + 89) % 256

encodeID(pk) == <<idVersion, pk, checksumOf(idVersion, pk)>>

\* decode(id): the public key, or -1 for InvalidIdentifier
decodeID(id) ==
    IF Len(id) # 3 THEN -1
    ELSE IF id[1] # idVersion THEN -1
    ELSE IF id[3] # checksumOf(id[1], id[2]) THEN -1
    ELSE id[2]

UserLock(sk) ==
    [type |-> "UserLock", secretKey |-> sk, publicKey |-> publicKeyOf(sk),
     userID |-> encodeID(publicKeyOf(sk))]

from_passphrase(e, pp) ==
    LET seed == foldBytes(joinWords(pp) \o <<0>> \o normaliseEmail(e), 7)
    IN  UserLock(1 + (seed % (groupP - 1)))

NoKey == [type |-> "None", secretKey |-> 0, publicKey |-> 0, userID |-> <<>>]

(***************************************************************************)
(* crypto.b64encode / crypto.b64decode: base64 (RFC 4648) on byte strings. *)
(* Decoding drops the characters outside the alphabet, then fails on a     *)
(* length that is no multiple of four or on misplaced padding.             *)
(***************************************************************************)
b64Pad == 61

b64char(i) ==
    IF i < 26 THEN 65 + i
    ELSE IF i < 52 THEN 97 + (i - 26)
    ELSE IF i < 62 THEN 48 + (i - 52)
    ELSE IF i = 62 THEN 43 ELSE 47

b64index(c) ==
    IF c \in 65..90 THEN c - 65
    ELSE IF c \in 97..122 THEN (c - 97) + 26
    ELSE IF c \in 48..57 THEN (c - 48) + 52
    ELSE IF c = 43 THEN 62
    ELSE IF c = 47 THEN 63
    ELSE -1

RECURSIVE b64encode(_)
b64encode(s) ==
    IF Len(s) = 0 THEN <<>>
    ELSE IF Len(s) = 1 THEN
        <<b64char(s[1] \div 4), b64char((s[1] % 4) * 16), b64Pad, b64Pad>>
    ELSE IF Len(s) = 2 THEN
        <<b64char(s[1] \div 4),
          b64char(((s[1] % 4) * 16) + (s[2] \div 16)),
          b64char((s[2] % 16) * 4), b64Pad>>
    ELSE
        <<b64char(s[1] \div 4),
          b64char(((s[1] % 4) * 16) + (s[2] \div 16)),
          b64char(((s[2] % 16) * 4) + (s[3] \div 64)),
          b64char(s[3] % 64)>> \o b64encode(SubSeq(s, 4, Len(s)))

b64keep(c) == b64index(c) >= 0 \/ c = b64Pad

b64filter(t) == SelectSeq(t, b64keep)

\* the bytes of the four-character groups of t; <<-1>> marks a bad group
RECURSIVE b64groups(_)
b64groups(t) ==
    IF t = <<>> THEN <<>>
    ELSE LET a == b64index(t[1])
             b == b64index(t[2])
             c == b64index(t[3])
             d == b64index(t[4])
             last == Len(t) = 4
             b1 == (a * 4) + (b \div 16)
             b2 == ((b % 16) * 16) + (c \div 4)
             b3 == ((c % 4) * 64) + d
         IN  IF a < 0 \/ b < 0 THEN <<-1>>
             ELSE IF t[3] = b64Pad /\ t[4] = b64Pad /\ last THEN <<b1>>
             ELSE IF c >= 0 /\ t[4] = b64Pad /\ last THEN <<b1, b2>>
             ELSE IF c >= 0 /\ d >= 0
                  THEN <<b1, b2, b3>> \o b64groups(SubSeq(t, 5, Len(t)))
             ELSE <<-1>>

b64decode(t) ==
    LET f == b64filter(t)
        g == IF Len(f) % 4 = 0 THEN b64groups(f) ELSE <<-1>>
    IN  IF \E i \in 1..Len(g) : g[i] < 0
        THEN [ok |-> FALSE, bytes |-> <<>>]
        ELSE [ok |-> TRUE, bytes |-> g]

(***************************************************************************)
(* FileCipher: chunked authenticated encryption of the body under the      *)
(* one-time file key.                                                      *)
(***************************************************************************)
chunkSize == 2

LE4(n) == <<n % 256, (n \div 256) % 256, (n \div 65536) % 256,
            (n \div 16777216) % 256>>

fromLE4(s, i) ==
    s[i] + (256 * s[i + 1]) + (65536 * s[i + 2]) + (16777216 * s[i + 3])

keystream(k, n, j) == ((k * 7) + (n * 13) + (j * 29) + 5) % 256

encryptBytes(k, n, m) ==
    [j \in 1..Len(m) |-> (m[j] + keystream(k, n, j)) % 256]

decryptBytes(k, n, c) ==
    [j \in 1..Len(c) |-> ((c[j] + 256) - keystream(k, n, j)) % 256]

macOf(k, n, final, c) ==
    foldBytes(c, ((k * 3) + (n * 5) + (final * 101) + 11) % groupP)

hashOf(c) == foldBytes(c, 17)

chunkNonce(fileNonce, i) == (fileNonce + i) % 256

RECURSIVE splitChunks(_)
splitChunks(m) ==
    IF Len(m) = 0 THEN <<>>
    ELSE IF Len(m) <= chunkSize THEN <<m>>
    ELSE <<SubSeq(m, 1, chunkSize)>>
         \o splitChunks(SubSeq(m, chunkSize + 1, Len(m)))

RECURSIVE concat(_)
concat(ss) == IF ss = <<>> THEN <<>> ELSE Head(ss) \o concat(Tail(ss))

\* the chunks of the plaintext, then the zero-length chunk marked final
encryptChunks(fileKey, fileNonce, plaintext) ==
    LET pieces == splitChunks(plaintext)
        n == Len(pieces)
        chunk(i) ==
            LET c == IF i <= n
                     THEN encryptBytes(fileKey, chunkNonce(fileNonce, i - 1),
                                       pieces[i])
                     ELSE <<>>
            IN  [cipher |-> c,
                 tag |-> macOf(fileKey, chunkNonce(fileNonce, i - 1),
                               IF i <= n THEN 0 ELSE 1, c)]
        chunks == [i \in 1..(n + 1) |-> chunk(i)]
    IN  [chunks |-> chunks,
         chunkHashes |-> [i \in 1..(n + 1) |->
                             hashOf(chunks[i].cipher \o <<chunks[i].tag>>)]]

\* every tag and hash is verified before any plaintext is produced
chunksVerify(fileKey, fileNonce, chunks, chunkHashes) ==
    /\ Len(chunks) >= 1
    /\ Len(chunks) = Len(chunkHashes)
    /\ chunks[Len(chunks)].cipher = <<>>
    /\ \A i \in 1..Len(chunks) :
          /\ hashOf(chunks[i].cipher \o <<chunks[i].tag>>) = chunkHashes[i]
          /\ chunks[i].tag =
                macOf(fileKey, chunkNonce(fileNonce, i - 1),
                      IF i = Len(chunks) THEN 1 ELSE 0, chunks[i].cipher)

decryptChunks(fileKey, fileNonce, chunks, chunkHashes) ==
    IF chunksVerify(fileKey, fileNonce, chunks, chunkHashes)
    THEN [ok |-> TRUE,
          plaintext |-> concat([i \in 1..Len(chunks) |->
                                   decryptBytes(fileKey,
                                                chunkNonce(fileNonce, i - 1),
                                                chunks[i].cipher)])]
    ELSE [ok |-> FALSE, plaintext |-> <<>>]

(***************************************************************************)
(* RecipientKeyWrap: the file info boxed from the ephemeral key to each    *)
(* recipient, found again through a blind lookup tag.                      *)
(***************************************************************************)
fileInfoBytes(fi) ==
    <<fi.fileKey, fi.fileNonce, fi.senderPublicKey, Len(fi.fileName)>>
    \o fi.fileName \o <<Len(fi.chunkHashes)>> \o fi.chunkHashes

NoFileInfo ==
    [ok |-> FALSE, fileKey |-> 0, fileNonce |-> 0, senderPublicKey |-> 0,
     fileName |-> <<>>, chunkHashes |-> <<>>]

parseFileInfo(b) ==
    IF Len(b) < 5 THEN NoFileInfo
    ELSE IF Len(b) < 5 + b[4] THEN NoFileInfo
    ELSE IF Len(b) # 5 + b[4] + b[5 + b[4]] THEN NoFileInfo
    ELSE [ok |-> TRUE, fileKey |-> b[1], fileNonce |-> b[2],
          senderPublicKey |-> b[3],
          fileName |-> SubSeq(b, 5, 4 + b[4]),
          chunkHashes |-> SubSeq(b, 6 + b[4], Len(b))]

sharedKey(sk, pk) == powMod(pk, sk, groupP)

box(k, m) ==
    LET c == encryptBytes(k, 0, m) IN c \o <<macOf(k, 0, 0, c)>>

unbox(k, cm) ==
    IF Len(cm) < 1 THEN [ok |-> FALSE, bytes |-> <<>>]
    ELSE LET c == SubSeq(cm, 1, Len(cm) - 1)
         IN  IF macOf(k, 0, 0, c) = cm[Len(cm)]
             THEN [ok |-> TRUE, bytes |-> decryptBytes(k, 0, c)]
             ELSE [ok |-> FALSE, bytes |-> <<>>]

lookupTagOf(pk) == ((pk * 37) + 151) % 256

wrap(ephemeralSecretKey, recipientPublicKey, fi) ==
    [lookupTag |-> lookupTagOf(recipientPublicKey),
     wrappedFileInfo |-> box(sharedKey(ephemeralSecretKey, recipientPublicKey),
                             fileInfoBytes(fi))]

\* the first entry whose tag the recipient reproduces is the only one tried
unwrap(recipientSecretKey, ephemeralPublicKey, entries) ==
    LET mine == lookupTagOf(publicKeyOf(recipientSecretKey))
        hits == {i \in 1..Len(entries) : entries[i].lookupTag = mine}
    IN  IF hits = {} THEN NoFileInfo
        ELSE LET i == CHOOSE k \in hits : \A j \in hits : k <= j
                 u == unbox(sharedKey(recipientSecretKey, ephemeralPublicKey),
                            entries[i].wrappedFileInfo)
             IN  IF u.ok THEN parseFileInfo(u.bytes) ELSE NoFileInfo

(***************************************************************************)
(* ContainerCodec: magic, version, header length, header (ephemeral public *)
(* key and entries), body records.                                         *)
(***************************************************************************)
magic == <<109, 76>>
containerVersion == 1

RECURSIVE entriesBytes(_)
entriesBytes(es) ==
    IF es = <<>> THEN <<>>
    ELSE <<Head(es).lookupTag, Len(Head(es).wrappedFileInfo)>>
         \o Head(es).wrappedFileInfo \o entriesBytes(Tail(es))

RECURSIVE bodyBytes(_)
bodyBytes(cs) ==
    IF cs = <<>> THEN <<>>
    ELSE LE4(Len(Head(cs).cipher)) \o Head(cs).cipher \o <<Head(cs).tag>>
         \o bodyBytes(Tail(cs))

serialize(ephemeralPublicKey, entries, chunks) ==
    LET header == <<ephemeralPublicKey, Len(entries)>> \o entriesBytes(entries)
    IN  magic \o <<containerVersion>> \o LE4(Len(header)) \o header
        \o bodyBytes(chunks)

\* n entries from b; <<>> when b does not hold exactly n entries
RECURSIVE parseEntries(_, _)
parseEntries(b, n) ==
    IF n = 0 THEN (IF b = <<>> THEN <<"end">> ELSE <<>>)
    ELSE IF Len(b) < 2 THEN <<>>
    ELSE IF Len(b) < 2 + b[2] THEN <<>>
    ELSE LET rest == parseEntries(SubSeq(b, 3 + b[2], Len(b)), n - 1)
         IN  IF rest = <<>> THEN <<>>
             ELSE <<[lookupTag |-> b[1],
                     wrappedFileInfo |-> SubSeq(b, 3, 2 + b[2])]>> \o rest

\* the records of b up to the zero-length one, which must end b
RECURSIVE parseBody(_)
parseBody(b) ==
    IF Len(b) < 5 THEN <<>>
    ELSE LET n == fromLE4(b, 1)
         IN  IF Len(b) < 5 + n THEN <<>>
             ELSE LET rec == [cipher |-> SubSeq(b, 5, 4 + n), tag |-> b[5 + n]]
                  IN  IF n = 0
                      THEN (IF Len(b) = 5 THEN <<rec, "end">> ELSE <<>>)
                      ELSE LET rest == parseBody(SubSeq(b, 6 + n, Len(b)))
                           IN  IF rest = <<>> THEN <<>> ELSE <<rec>> \o rest

Unparsed(e) ==
    [ok |-> FALSE, err |-> e, ephemeralPublicKey |-> 0, entries |-> <<>>,
     chunks |-> <<>>]

parseContainer(b) ==
    IF Len(b) < 7 THEN Unparsed("TruncatedContainer")
    ELSE IF SubSeq(b, 1, 2) # magic THEN Unparsed("TruncatedContainer")
    ELSE IF b[3] # containerVersion THEN Unparsed("UnsupportedVersion")
    ELSE LET h == fromLE4(b, 4)
         IN  IF h < 2 \/ Len(b) < 7 + h THEN Unparsed("TruncatedContainer")
             ELSE LET es == parseEntries(SubSeq(b, 10, 7 + h), b[9])
                      cs == parseBody(SubSeq(b, 8 + h, Len(b)))
                  IN  IF es = <<>> \/ cs = <<>>
                      THEN Unparsed("TruncatedContainer")
                      ELSE [ok |-> TRUE, err |-> "none",
                            ephemeralPublicKey |-> b[8],
                            entries |-> SubSeq(es, 1, Len(es) - 1),
                            chunks |-> SubSeq(cs, 1, Len(cs) - 1)]

(***************************************************************************)
(* crypto.MiniLockFile.new: seal.  A recipient is a UserLock or the string *)
(* of an identifier.                                                       *)
(***************************************************************************)
Str(id) == [type |-> "str", secretKey |-> 0, publicKey |-> 0, userID |-> id]

recipientKey(r) ==
    IF r.type = "UserLock" THEN r.publicKey
    ELSE IF r.type = "str" THEN decodeID(r.userID)
    ELSE -1

RECURSIVE dedup(_)
dedup(s) ==
    IF s = <<>> THEN <<>>
    ELSE LET front == dedup(SubSeq(s, 1, Len(s) - 1))
             x == s[Len(s)]
         IN  IF \E i \in 1..Len(front) : front[i] = x
             THEN front ELSE Append(front, x)

\* the sender itself always gets an entry
sealRecipients_callerOnly(sender, recipients) ==
    dedup([i \in 1..Len(recipients) |-> recipientKey(recipients[i])])

sealRecipients(sender, recipients) ==
    dedup(<<sender.publicKey>>
          \o [i \in 1..Len(recipients) |-> recipientKey(recipients[i])])

seal(sender, recipients, fileName, plaintext, rnd) ==
    IF \E i \in 1..Len(recipients) : recipientKey(recipients[i]) < 0
    THEN [ok |-> FALSE, err |-> "InvalidIdentifier", contents |-> <<>>]
    ELSE LET body == encryptChunks(rnd.fileKey, rnd.fileNonce, plaintext)
             fi == [fileKey |-> rnd.fileKey, fileNonce |-> rnd.fileNonce,
                    senderPublicKey |-> sender.publicKey,
                    fileName |-> fileName,
                    chunkHashes |-> body.chunkHashes]
             pks == sealRecipients(sender, recipients)
             entries == [i \in 1..Len(pks) |->
                            wrap(rnd.ephemeralSecretKey, pks[i], fi)]
         IN  [ok |-> TRUE, err |-> "none",
              contents |-> serialize(publicKeyOf(rnd.ephemeralSecretKey),
                                     entries, body.chunks)]

(***************************************************************************)
(* The file system: paths are byte strings.                                *)
(***************************************************************************)
Slash == 47

pFile == <<115, Slash, 97>>             \* "s/a", a regular file
pDir == <<100>>                         \* "d", a folder
pDirFile == <<100, Slash, 102>>         \* "d/f", the file in it
pMissing == <<110>>                     \* "n", nothing there
pSpecial == <<116>>                     \* "t", neither file nor folder
pOut == <<111>>                         \* "o", the --output of the caller
pRandom == <<114>>                      \* "r", the random output name
pSaved == <<99>>                        \* "c", where a library caller saves
pName == <<97>>                         \* "a", the file name of "s/a"
pZipName == <<100, Dot, 122, 105, 112>> \* "d.zip"

AllPaths == <<pDirFile, pFile, pDir, pMissing, pSpecial, pOut, pRandom,
              pSaved, pName, pZipName>>

PathSet == {AllPaths[i] : i \in 1..Len(AllPaths)}

NoFile == [kind |-> "none", data |-> <<>>]
File(d) == [kind |-> "file", data |-> d]

InitialFs ==
    [q \in PathSet |->
        IF q = pFile THEN File(<<104, 105, 33>>)
        ELSE IF q = pDirFile THEN File(<<7, 9>>)
        ELSE IF q = pDir THEN [kind |-> "dir", data |-> <<>>]
        ELSE IF q = pSpecial THEN [kind |-> "special", data |-> <<>>]
        ELSE NoFile]

\* os.path.split(path)[1]
basename(path) == rsplitTail(path, Slash)

isPrefix(a, b) == Len(a) <= Len(b) /\ SubSeq(b, 1, Len(a)) = a

(***************************************************************************)
(* The state.                                                              *)
(***************************************************************************)
VARIABLES
    run,        \* invocations started so far
    mode,       \* what this invocation runs
    pc,         \* where it is
    wordlist,   \* the words phrase.generate_phrase draws from
    keyboard,   \* what the person at the terminal answers to the prompts
    email,      \* make_lock_securely: email
    passphrase, \* make_lock_securely: passphrase
    ok,         \* make_lock_securely: ok
    p,          \* make_random_phrase: p
    userKey,    \* the UserLock make_lock_securely returned
    emailReads, \* history: input() calls of this invocation
    typed,      \* history: what getpass last returned
    suggested,  \* history: a suggestion was printed in this invocation
    derived,    \* history: the (email, passphrase) pairs from_passphrase got
    fs,         \* the file system: path -> [kind, data]
    error,      \* the exception or exit that ended the invocation
    A,          \* the argparse namespace of main
    call,       \* the parameters of the library function that runs
    contents,   \* the bytes read from the input
    parsed,     \* decrypt_file: crypted, the parsed container
    fileInfo,   \* decrypt: the file info unwrapped for the recipient
    ret,        \* what the library function returned
    crypted,    \* main_encrypt: crypted
    readInput,  \* history: the input file or folder has been read
    opened,     \* history: the paths opened for writing in this invocation
    dtrace,     \* history: the decryption states entered, in order
    rawRead,    \* history: the bytes decrypt_file read from the file
    fsStart,    \* history: the file system when the invocation started
    sealed,     \* history: the last successful seal, its inputs and output
    written     \* history: the last output file main_encrypt wrote

lockVars == <<email, passphrase, ok, p, userKey, emailReads, typed, suggested,
              derived>>
envVars == <<run, mode, wordlist, keyboard>>
dataVars == <<contents, parsed, fileInfo, ret, crypted>>
histVars == <<readInput, opened, dtrace, rawRead, fsStart, sealed, written>>
opVars == <<fs, error, A, call, dataVars, histVars>>
vars == <<pc, envVars, lockVars, opVars>>

\* everything a user may type at the prompts
Emails == { <<120, At, 121, Dot, 122>>,       \* x@y.z
            <<113, At, 120>>,                 \* q@x
            <<120, At, 121, At, 122>> }       \* x@y@z

TypedPassphrases == { <<Wq>>,
                      <<Ww, Ww, Ww, Ww, Ww>>,
                      <<Wx, Ww, Ww, Ww, Ww>> }

\* phrase.generate_phrase(n): n words of the word list
phrasesOf(n) == [1..n -> wordlist]

NoArgs == [path |-> <<>>, recipient |-> <<>>, base64 |-> FALSE, output |-> <<>>]
NoCall == [file_path |-> <<>>, sender |-> NoKey, recipients |-> <<>>,
           recipient_key |-> NoKey, base64 |-> FALSE]
NoRet == [kind |-> "none", bytes |-> <<>>, filename |-> <<>>]
NoSeal == [op |-> "none", file_path |-> <<>>, sender |-> NoKey,
           recipients |-> <<>>, fileName |-> <<>>, plaintext |-> <<>>,
           contents |-> <<>>]
NoWrite == [path |-> <<>>, data |-> <<>>, base64 |-> FALSE, seal |-> NoSeal]
Terminal == {"done", "returned", "raised", "exited"}

\* what a new invocation starts from: the file system and the history of
\* earlier invocations stay, everything local is fresh
Fresh ==
    /\ email' = <<>>
    /\ passphrase' = <<>>
    /\ ok' = FALSE
    /\ p' = <<>>
    /\ userKey' = NoKey
    /\ emailReads' = 0
    /\ typed' = <<>>
    /\ suggested' = FALSE
    /\ derived' = <<>>
    /\ error' = "none"
    /\ A' = NoArgs
    /\ contents' = <<>>
    /\ parsed' = Unparsed("none")
    /\ fileInfo' = NoFileInfo
    /\ ret' = NoRet
    /\ crypted' = <<>>
    /\ readInput' = FALSE
    /\ opened' = {}
    /\ dtrace' = <<>>
    /\ rawRead' = <<>>
    /\ fsStart' = fs

StartRun(m) ==
    /\ pc \in Terminal \cup {"idle"}
    /\ run < MaxRuns
    /\ run' = run + 1
    /\ mode' = m
    /\ Fresh
    /\ UNCHANGED <<wordlist, keyboard, fs, sealed, written>>

(***************************************************************************)
(* make_lock_securely (core.py 48-58) and make_random_phrase (43-46).      *)
(***************************************************************************)
\* line 50
MlsInputEmail ==
    /\ pc = "mls_email"
    /\ \E e \in keyboard.emails : email' = e
    /\ emailReads' = emailReads + 1
    /\ pc' = "mls_getpass"
    /\ UNCHANGED <<envVars, opVars, passphrase, ok, p, userKey, typed,
                   suggested, derived>>

\* lines 52-53
MlsGetpass ==
    /\ pc = "mls_getpass"
    /\ \E t \in keyboard.passphrases :
          /\ passphrase' = t
          /\ typed' = t
          /\ ok' = check_passphrase(t, email)[1]
    /\ pc' = "mls_checked"
    /\ UNCHANGED <<envVars, opVars, email, p, userKey, emailReads, suggested,
                   derived>>

MlsBreak_reprompt ==
    /\ pc = "mls_checked"
    /\ ok
    /\ pc' = "mls_getpass"
    /\ UNCHANGED <<envVars, opVars, lockVars>>

\* line 54
MlsBreak ==
    /\ pc = "mls_checked"
    /\ ok
    /\ pc' = "mls_derive"
    /\ UNCHANGED <<envVars, opVars, lockVars>>

\* lines 55-56: the message, then the call of make_random_phrase
MlsReject ==
    /\ pc = "mls_checked"
    /\ ~ok
    /\ pc' = "mrp_generate"
    /\ UNCHANGED <<envVars, opVars, lockVars>>

\* line 45
MrpGenerate ==
    /\ pc = "mrp_generate"
    /\ \E g \in phrasesOf(7) : p' = g
    /\ pc' = "mrp_check"
    /\ UNCHANGED <<envVars, opVars, email, passphrase, ok, userKey,
                   emailReads, typed, suggested, derived>>

MrpReturn_unchecked ==
    /\ pc = "mrp_check"
    /\ suggested' = TRUE
    /\ pc' = "mls_suggested"
    /\ UNCHANGED <<envVars, opVars, email, passphrase, ok, p, userKey,
                   emailReads, typed, derived>>

\* line 46, the phrase passes: return p; line 56 prints it
MrpReturn ==
    /\ pc = "mrp_check"
    /\ check_passphrase(p, email)[1]
    /\ suggested' = TRUE
    /\ pc' = "mls_suggested"
    /\ UNCHANGED <<envVars, opVars, email, passphrase, ok, p, userKey,
                   emailReads, typed, derived>>

\* line 46, the phrase fails: next iteration of the loop
MrpRetry ==
    /\ pc = "mrp_check"
    /\ ~check_passphrase(p, email)[1]
    /\ p' = <<>>
    /\ pc' = "mrp_generate"
    /\ UNCHANGED <<envVars, opVars, email, passphrase, ok, userKey,
                   emailReads, typed, suggested, derived>>

MlsLoop_substitute ==
    /\ pc = "mls_suggested"
    /\ passphrase' = p
    /\ pc' = "mls_derive"
    /\ UNCHANGED <<envVars, opVars, email, ok, p, userKey, emailReads,
                   typed, suggested, derived>>

\* line 56 done: back to the top of the loop at line 51
MlsLoop ==
    /\ pc = "mls_suggested"
    /\ p' = <<>>
    /\ pc' = "mls_getpass"
    /\ UNCHANGED <<envVars, opVars, email, passphrase, ok, userKey,
                   emailReads, typed, suggested, derived>>

\* lines 57-58
MlsDerive ==
    /\ pc = "mls_derive"
    /\ userKey' = from_passphrase(email, passphrase)
    /\ derived' = Append(derived, [email |-> email, passphrase |-> passphrase])
    /\ pc' = "mls_return"
    /\ UNCHANGED <<envVars, opVars, email, passphrase, ok, p, emailReads,
                   typed, suggested>>

(***************************************************************************)
(* main (core.py 146-177): the mode chosen on the command line starts with *)
(* make_lock_securely.  The other fields of the namespace A are drawn      *)
(* where the mode first reads them; make_lock_securely does not read A.    *)
(***************************************************************************)
MainEncrypt ==
    /\ StartRun("encrypt")
    /\ call' = NoCall
    /\ pc' = "mls_email"

MainDecrypt ==
    /\ StartRun("decrypt")
    /\ call' = NoCall
    /\ pc' = "mls_email"

MainGenerate ==
    /\ StartRun("generate")
    /\ call' = NoCall
    /\ pc' = "mls_email"

\* main_generate (core.py 141-144)
MainGenerateDone ==
    /\ pc = "mls_return"
    /\ mode = "generate"
    /\ pc' = "done"
    /\ UNCHANGED <<envVars, opVars, lockVars>>

(***************************************************************************)
(* The identities and recipient lists the callers pass.                    *)
(***************************************************************************)
Alice == from_passphrase(<<120, At, 121, Dot, 122>>, <<Ww, Ww, Ww, Ww, Ww>>)
Bob == from_passphrase(<<113, At, 120>>, <<Ww, Ww, Ww, Ww, Ww>>)
Carol == from_passphrase(<<120, At, 121, At, 122>>, <<Ww, Ww, Ww, Ww, Ww>>)

\* Bob's identifier with a typo in the checksum
BadID == <<idVersion, Bob.publicKey, (checksumOf(idVersion, Bob.publicKey) + 1) % 256>>

IntValue == [type |-> "int", secretKey |-> 0, publicKey |-> 0, userID |-> <<>>]

\* A.recipient: nargs="+", type=str (core.py 162)
CliRecipients == { <<Bob.userID>>, <<Bob.userID, BadID>> }

LibRecipients == { <<Str(Bob.userID)>>,
                   <<Bob>>,
                   <<Str(Bob.userID), Str(BadID)>>,
                   <<Bob, IntValue>> }

LibSenders == { Alice, Str(Alice.userID) }

\* os.urandom inside MiniLockFile.new
Randoms == { [fileKey |-> 77, fileNonce |-> 200, ephemeralSecretKey |-> 23] }

EncryptArgs ==
    [path : {pFile, pDir, pMissing, pSpecial}, recipient : CliRecipients,
     base64 : BOOLEAN, output : {<<>>, pOut}]

DecryptArgs ==
    [path : {pOut, pRandom, pFile, pDir}, recipient : {<<>>},
     base64 : BOOLEAN, output : {<<>>}]

\* crypto.assert_type_and_length(name, var, T): isinstance(var, T)
assert_type_and_length(var, T) == var.type \in T

\* error_out (core.py 105-107): the message, then sys.exit(1)
error_out ==
    /\ error' = "SystemExit"
    /\ pc' = "exited"

raise(e) ==
    /\ error' = e
    /\ pc' = "raised"

(***************************************************************************)
(* The zip archive of a folder (core.py 92-99): the files os.walk finds    *)
(* under the path, each stored under its path with its data.               *)
(***************************************************************************)
RECURSIVE zipEntries(_, _, _)
zipEntries(f, path, i) ==
    IF i > Len(AllPaths) THEN <<>>
    ELSE (IF f[AllPaths[i]].kind = "file"
             /\ isPrefix(path \o <<Slash>>, AllPaths[i])
          THEN <<Len(AllPaths[i])>> \o AllPaths[i]
               \o <<Len(f[AllPaths[i]].data)>> \o f[AllPaths[i]].data
          ELSE <<>>)
         \o zipEntries(f, path, i + 1)

zipOf(f, path) == <<80, 75>> \o zipEntries(f, path, 1)

dotZip == <<Dot, 122, 105, 112>>

(***************************************************************************)
(* encrypt_file (core.py 60-70) and encrypt_folder (82-103).               *)
(***************************************************************************)
\* lines 62-64 and 87-89
typesValid ==
    /\ \A i \in 1..Len(call.recipients) :
          assert_type_and_length(call.recipients[i], {"str", "UserLock"})
    /\ assert_type_and_length(call.sender, {"UserLock"})

EfValidate_noCheck ==
    /\ pc = "ef_validate"
    /\ pc' = "ef_path"
    /\ UNCHANGED <<envVars, lockVars, opVars>>

EfValidate ==
    /\ pc = "ef_validate"
    /\ IF typesValid
       THEN pc' = "ef_path" /\ UNCHANGED error
       ELSE raise("TypeError")
    /\ UNCHANGED <<envVars, lockVars, fs, A, call, dataVars, histVars>>

\* lines 65-66
EfPath ==
    /\ pc = "ef_path"
    /\ IF fs[call.file_path].kind = "file"
       THEN pc' = "ef_read" /\ UNCHANGED error
       ELSE raise("OSError")
    /\ UNCHANGED <<envVars, lockVars, fs, A, call, dataVars, histVars>>

\* lines 67-69: I.read()
EfRead ==
    /\ pc = "ef_read"
    /\ contents' = fs[call.file_path].data
    /\ readInput' = TRUE
    /\ pc' = "ef_seal"
    /\ UNCHANGED <<envVars, lockVars, fs, error, A, call, parsed, fileInfo,
                   ret, crypted, opened, dtrace, rawRead, fsStart, sealed, written>>

\* what MiniLockFile.new gives for the name, the data and fresh randomness
Sealing(mode_op, fileName, rnd) ==
    LET r == seal(call.sender, call.recipients, fileName, contents, rnd)
    IN  IF r.ok
        THEN /\ ret' = [kind |-> "bytes", bytes |-> r.contents,
                        filename |-> <<>>]
             /\ sealed' = [op |-> mode_op,
                           file_path |-> call.file_path,
                           sender |-> call.sender,
                           recipients |-> call.recipients,
                           fileName |-> fileName,
                           plaintext |-> contents,
                           contents |-> r.contents]
             /\ crypted' = IF mode = "encrypt" THEN r.contents ELSE crypted
             /\ pc' = IF mode = "encrypt" THEN "me_b64" ELSE "returned"
             /\ UNCHANGED error
        ELSE /\ raise(r.err)
             /\ UNCHANGED <<ret, sealed, crypted>>

EfSeal_fullPath ==
    /\ pc = "ef_seal"
    /\ \E rnd \in Randoms : Sealing("encrypt_file", call.file_path, rnd)
    /\ UNCHANGED <<envVars, lockVars, fs, A, call, contents, parsed, fileInfo,
                   readInput, opened, dtrace, rawRead, fsStart, written>>

\* lines 67, 69-70
EfSeal ==
    /\ pc = "ef_seal"
    /\ \E rnd \in Randoms : Sealing("encrypt_file", basename(call.file_path), rnd)
    /\ UNCHANGED <<envVars, lockVars, fs, A, call, contents, parsed, fileInfo,
                   readInput, opened, dtrace, rawRead, fsStart, written>>

\* lines 87-89
EdValidate ==
    /\ pc = "ed_validate"
    /\ IF typesValid
       THEN pc' = "ed_path" /\ UNCHANGED error
       ELSE raise("TypeError")
    /\ UNCHANGED <<envVars, lockVars, fs, A, call, dataVars, histVars>>

\* lines 90-91
EdPath ==
    /\ pc = "ed_path"
    /\ IF fs[call.file_path].kind = "dir"
       THEN pc' = "ed_zip" /\ UNCHANGED error
       ELSE raise("OSError")
    /\ UNCHANGED <<envVars, lockVars, fs, A, call, dataVars, histVars>>

\* lines 92-99
EdZip ==
    /\ pc = "ed_zip"
    /\ contents' = zipOf(fs, call.file_path)
    /\ readInput' = TRUE
    /\ pc' = "ed_seal"
    /\ UNCHANGED <<envVars, lockVars, fs, error, A, call, parsed, fileInfo,
                   ret, crypted, opened, dtrace, rawRead, fsStart, sealed, written>>

\* lines 100-103
EdSeal ==
    /\ pc = "ed_seal"
    /\ \E rnd \in Randoms :
          Sealing("encrypt_folder", basename(call.file_path) \o dotZip, rnd)
    /\ UNCHANGED <<envVars, lockVars, fs, A, call, contents, parsed, fileInfo,
                   readInput, opened, dtrace, rawRead, fsStart, written>>

(***************************************************************************)
(* main_encrypt (core.py 109-126).                                         *)
(***************************************************************************)
\* lines 110-113
MeExists ==
    /\ pc = "mls_return"
    /\ mode = "encrypt"
    /\ \E a \in EncryptArgs :
          /\ A' = a
          /\ IF fs[a.path].kind = "none"
             THEN error_out
             ELSE pc' = "me_kind" /\ UNCHANGED error
    /\ UNCHANGED <<envVars, lockVars, fs, call, dataVars, histVars>>

encryptCall ==
    [file_path |-> A.path, sender |-> userKey,
     recipients |-> <<userKey>> \o [i \in 1..Len(A.recipient) |->
                                       Str(A.recipient[i])],
     recipient_key |-> NoKey, base64 |-> FALSE]

MeKind_openFirst ==
    /\ pc = "me_kind"
    /\ fs[A.path].kind \in {"file", "dir"}
    /\ call' = encryptCall
    /\ pc' = IF fs[A.path].kind = "file" THEN "ef_validate" ELSE "ed_validate"
    /\ fs' = [fs EXCEPT ![pOut] = File(<<>>)]
    /\ opened' = opened \cup {pOut}
    /\ UNCHANGED <<envVars, lockVars, error, A, dataVars, readInput, dtrace,
                   rawRead, fsStart, sealed, written>>

\* lines 114-119
MeKind ==
    /\ pc = "me_kind"
    /\ IF fs[A.path].kind = "file"
       THEN call' = encryptCall /\ pc' = "ef_validate" /\ UNCHANGED error
       ELSE IF fs[A.path].kind = "dir"
       THEN call' = encryptCall /\ pc' = "ed_validate" /\ UNCHANGED error
       ELSE error_out /\ UNCHANGED call
    /\ UNCHANGED <<envVars, lockVars, fs, A, dataVars, histVars>>

\* lines 120-121
MeB64 ==
    /\ pc = "me_b64"
    /\ crypted' = IF A.base64 THEN b64encode(crypted) ELSE crypted
    /\ pc' = "me_output"
    /\ UNCHANGED <<envVars, lockVars, fs, error, A, call, contents, parsed,
                   fileInfo, ret, histVars>>

\* lines 122-124
MeOutput ==
    /\ pc = "me_output"
    /\ A' = IF A.output = <<>> THEN [A EXCEPT !.output = pRandom] ELSE A
    /\ pc' = "me_open"
    /\ UNCHANGED <<envVars, lockVars, fs, error, call, dataVars, histVars>>

\* line 125
MeOpen ==
    /\ pc = "me_open"
    /\ fs' = [fs EXCEPT ![A.output] = File(<<>>)]
    /\ opened' = opened \cup {A.output}
    /\ pc' = "me_write"
    /\ UNCHANGED <<envVars, lockVars, error, A, call, dataVars, readInput,
                   dtrace, rawRead, fsStart, sealed, written>>

\* line 126
MeWrite ==
    /\ pc = "me_write"
    /\ fs' = [fs EXCEPT ![A.output] = File(crypted)]
    /\ written' = [path |-> A.output, data |-> crypted, base64 |-> A.base64,
                   seal |-> sealed]
    /\ pc' = "done"
    /\ UNCHANGED <<envVars, lockVars, error, A, call, dataVars, readInput,
                   opened, dtrace, rawRead, fsStart, sealed>>

(***************************************************************************)
(* A program that calls the library: encrypt_file or encrypt_folder, and   *)
(* then saves the container it got.                                        *)
(***************************************************************************)
CallEncryptFile ==
    /\ StartRun("encrypt_file")
    /\ \E path \in {pFile, pMissing}, s \in LibSenders, r \in LibRecipients :
          call' = [file_path |-> path, sender |-> s, recipients |-> r,
                   recipient_key |-> NoKey, base64 |-> FALSE]
    /\ pc' = "ef_validate"

CallEncryptFolder ==
    /\ StartRun("encrypt_folder")
    /\ \E path \in {pDir, pFile}, s \in LibSenders, r \in LibRecipients :
          call' = [file_path |-> path, sender |-> s, recipients |-> r,
                   recipient_key |-> NoKey, base64 |-> FALSE]
    /\ pc' = "ed_validate"

CallerSave ==
    /\ pc = "returned"
    /\ mode \in {"encrypt_file", "encrypt_folder"}
    /\ fs' = [fs EXCEPT ![pSaved] = File(ret.bytes)]
    /\ pc' = "done"
    /\ UNCHANGED <<envVars, lockVars, error, A, call, dataVars, histVars>>

(***************************************************************************)
(* decrypt_file (core.py 72-80).  MiniLockFile(contents) parses the        *)
(* container; crypted.decrypt matches the recipient, verifies the body and *)
(* opens it.                                                               *)
(***************************************************************************)
\* line 74
DfValidate ==
    /\ pc = "df_validate"
    /\ IF assert_type_and_length(call.recipient_key, {"UserLock"})
       THEN pc' = "df_read" /\ UNCHANGED error
       ELSE raise("TypeError")
    /\ UNCHANGED <<envVars, lockVars, fs, A, call, dataVars, histVars>>

\* lines 75-76
DfRead ==
    /\ pc = "df_read"
    /\ IF fs[call.file_path].kind = "file"
       THEN /\ contents' = fs[call.file_path].data
            /\ rawRead' = fs[call.file_path].data
            /\ pc' = "df_b64"
            /\ UNCHANGED error
       ELSE /\ raise("OSError")
            /\ UNCHANGED <<contents, rawRead>>
    /\ UNCHANGED <<envVars, lockVars, fs, A, call, parsed, fileInfo, ret,
                   crypted, readInput, opened, dtrace, fsStart, sealed, written>>

DfB64_never ==
    /\ pc = "df_b64"
    /\ pc' = "df_parse"
    /\ UNCHANGED <<envVars, lockVars, opVars>>

\* lines 77-78
DfB64 ==
    /\ pc = "df_b64"
    /\ IF call.base64
       THEN LET d == b64decode(contents)
            IN  IF d.ok
                THEN contents' = d.bytes /\ pc' = "df_parse" /\ UNCHANGED error
                ELSE raise("binascii.Error") /\ UNCHANGED contents
       ELSE pc' = "df_parse" /\ UNCHANGED <<contents, error>>
    /\ UNCHANGED <<envVars, lockVars, fs, A, call, parsed, fileInfo, ret,
                   crypted, histVars>>

DfParse_swallow ==
    /\ pc = "df_parse"
    /\ parsed' = parseContainer(contents)
    /\ dtrace' = IF parsed'.ok THEN <<"Parsed">> ELSE dtrace
    /\ pc' = "dec_match"
    /\ UNCHANGED <<envVars, lockVars, fs, error, A, call, contents, fileInfo,
                   ret, crypted, readInput, opened, rawRead, fsStart, sealed, written>>

\* line 79
DfParse ==
    /\ pc = "df_parse"
    /\ parsed' = parseContainer(contents)
    /\ IF parsed'.ok
       THEN dtrace' = <<"Parsed">> /\ pc' = "dec_match" /\ UNCHANGED error
       ELSE raise(parsed'.err) /\ UNCHANGED dtrace
    /\ UNCHANGED <<envVars, lockVars, fs, A, call, contents, fileInfo, ret,
                   crypted, readInput, opened, rawRead, fsStart, sealed, written>>

\* line 80, decrypt: the recipient's entry
DecMatch ==
    /\ pc = "dec_match"
    /\ LET fi == unwrap(call.recipient_key.secretKey,
                        parsed.ephemeralPublicKey, parsed.entries)
       IN  IF fi.ok
           THEN /\ fileInfo' = fi
                /\ dtrace' = Append(dtrace, "RecipientMatched")
                /\ pc' = "dec_verify"
                /\ UNCHANGED error
           ELSE /\ raise("NoMatchingRecipient")
                /\ UNCHANGED <<fileInfo, dtrace>>
    /\ UNCHANGED <<envVars, lockVars, fs, A, call, contents, parsed, ret,
                   crypted, readInput, opened, rawRead, fsStart, sealed, written>>

\* line 80, decrypt: the tags and hashes of the body
DecVerify ==
    /\ pc = "dec_verify"
    /\ IF chunksVerify(fileInfo.fileKey, fileInfo.fileNonce, parsed.chunks,
                       fileInfo.chunkHashes)
       THEN /\ dtrace' = Append(dtrace, "BodyVerified")
            /\ pc' = "dec_open"
            /\ UNCHANGED error
       ELSE /\ raise("AuthenticationFailure")
            /\ UNCHANGED dtrace
    /\ UNCHANGED <<envVars, lockVars, fs, A, call, dataVars, readInput,
                   opened, rawRead, fsStart, sealed, written>>

\* line 80, decrypt: the file name and the plaintext, returned
DecOpen ==
    /\ pc = "dec_open"
    /\ ret' = [kind |-> "pair",
               bytes |-> decryptChunks(fileInfo.fileKey, fileInfo.fileNonce,
                                       parsed.chunks,
                                       fileInfo.chunkHashes).plaintext,
               filename |-> fileInfo.fileName]
    /\ dtrace' = Append(dtrace, "Opened")
    /\ pc' = IF mode = "decrypt" THEN "md_open" ELSE "returned"
    /\ UNCHANGED <<envVars, lockVars, fs, error, A, call, contents, parsed,
                   fileInfo, crypted, readInput, opened, rawRead, fsStart,
                   sealed, written>>

(***************************************************************************)
(* main_decrypt (core.py 128-139).                                         *)
(***************************************************************************)
\* lines 129-132
MdExists ==
    /\ pc = "mls_return"
    /\ mode = "decrypt"
    /\ \E a \in DecryptArgs :
          /\ A' = a
          /\ IF fs[a.path].kind = "none"
             THEN error_out
             ELSE pc' = "md_kind" /\ UNCHANGED error
    /\ UNCHANGED <<envVars, lockVars, fs, call, dataVars, histVars>>

\* lines 133-136
MdKind ==
    /\ pc = "md_kind"
    /\ IF fs[A.path].kind = "file"
       THEN /\ call' = [file_path |-> A.path, sender |-> NoKey,
                        recipients |-> <<>>, recipient_key |-> userKey,
                        base64 |-> A.base64]
            /\ pc' = "df_validate"
            /\ UNCHANGED error
       ELSE error_out /\ UNCHANGED call
    /\ UNCHANGED <<envVars, lockVars, fs, A, dataVars, histVars>>

\* lines 137-138
MdOpen ==
    /\ pc = "md_open"
    /\ fs' = [fs EXCEPT ![ret.filename] = File(<<>>)]
    /\ opened' = opened \cup {ret.filename}
    /\ pc' = "md_write"
    /\ UNCHANGED <<envVars, lockVars, error, A, call, dataVars, readInput,
                   dtrace, rawRead, fsStart, sealed, written>>

\* line 139
MdWrite ==
    /\ pc = "md_write"
    /\ fs' = [fs EXCEPT ![ret.filename] = File(ret.bytes)]
    /\ pc' = "done"
    /\ UNCHANGED <<envVars, lockVars, error, A, call, dataVars, histVars>>

(***************************************************************************)
(* A program that calls decrypt_file, and whatever damages a stored        *)
(* container before it is read.                                            *)
(***************************************************************************)
CallDecryptFile ==
    /\ StartRun("decrypt_file")
    /\ \E path \in {pSaved, pOut, pMissing},
          k \in {Alice, Bob, Carol, Str(Alice.userID)}, b \in BOOLEAN :
          call' = [file_path |-> path, sender |-> NoKey, recipients |-> <<>>,
                   recipient_key |-> k, base64 |-> b]
    /\ pc' = "df_validate"

\* the file is as the encryption left it
pristine(path) ==
    \/ path = written.path /\ fs[path] = File(written.data)
    \/ path = pSaved /\ sealed # NoSeal /\ fs[path] = File(sealed.contents)

\* the version byte, the header length, the first entry, the last tag
damagePlaces(d) == {3, 4, 12, Len(d)} \cap (1..Len(d))

Damage ==
    /\ pc = "df_read"
    /\ pristine(call.file_path)
    /\ \E i \in damagePlaces(fs[call.file_path].data) :
          fs' = [fs EXCEPT ![call.file_path].data[i] = (@ + 1) % 256]
    /\ UNCHANGED <<pc, envVars, lockVars, error, A, call, dataVars, histVars>>

(***************************************************************************)
(* The specifications.                                                     *)
(***************************************************************************)
InitVars ==
    /\ run = 0
    /\ mode = "none"
    /\ pc = "idle"
    /\ email = <<>>
    /\ passphrase = <<>>
    /\ ok = FALSE
    /\ p = <<>>
    /\ userKey = NoKey
    /\ emailReads = 0
    /\ typed = <<>>
    /\ suggested = FALSE
    /\ derived = <<>>
    /\ fs = InitialFs
    /\ error = "none"
    /\ A = NoArgs
    /\ call = NoCall
    /\ contents = <<>>
    /\ parsed = Unparsed("none")
    /\ fileInfo = NoFileInfo
    /\ ret = NoRet
    /\ crypted = <<>>
    /\ readInput = FALSE
    /\ opened = {}
    /\ dtrace = <<>>
    /\ rawRead = <<>>
    /\ fsStart = InitialFs
    /\ sealed = NoSeal
    /\ written = NoWrite

\* the passphrase gate alone, with a two-word list behind the generator
InitLock ==
    /\ InitVars
    /\ wordlist = {Wx, Wq}
    /\ keyboard = [emails |-> Emails, passphrases |-> TypedPassphrases]

NextLock ==
    \/ MainGenerate
    \/ MlsInputEmail
    \/ MlsGetpass
    \/ MlsBreak
    \/ MlsReject
    \/ MrpGenerate
    \/ MrpReturn
    \/ MrpRetry
    \/ MlsLoop
    \/ MlsDerive
    \/ MainGenerateDone

LockSpec == InitLock /\ [][NextLock]_vars

\* The interpreter runs every statement that does not wait for the user.
FairLockSpec ==
    /\ LockSpec
    /\ WF_vars(MlsBreak)
    /\ WF_vars(MlsReject)
    /\ WF_vars(MrpGenerate)
    /\ WF_vars(MrpReturn)
    /\ WF_vars(MrpRetry)
    /\ WF_vars(MlsLoop)
    /\ WF_vars(MlsDerive)

\* the whole program, with a one-word list behind the generator
Init ==
    /\ InitVars
    /\ wordlist = {Wx}
    /\ keyboard = [emails |-> {<<113, At, 120>>, <<120, At, 121, At, 122>>},
                   passphrases |-> {<<Wq>>, <<Ww, Ww, Ww, Ww, Ww>>}]

Next ==
    \/ MainEncrypt
    \/ MainDecrypt
    \/ MainGenerate
    \/ MlsInputEmail
    \/ MlsGetpass
    \/ MlsBreak
    \/ MlsReject
    \/ MrpGenerate
    \/ MrpReturn
    \/ MrpRetry
    \/ MlsLoop
    \/ MlsDerive
    \/ MainGenerateDone
    \/ MeExists
    \/ MeKind
    \/ EfValidate
    \/ EfPath
    \/ EfRead
    \/ EfSeal
    \/ EdValidate
    \/ EdPath
    \/ EdZip
    \/ EdSeal
    \/ MeB64
    \/ MeOutput
    \/ MeOpen
    \/ MeWrite
    \/ MdExists
    \/ MdKind
    \/ DfValidate
    \/ DfRead
    \/ DfB64
    \/ DfParse
    \/ DecMatch
    \/ DecVerify
    \/ DecOpen
    \/ MdOpen
    \/ MdWrite
    \/ CallEncryptFile
    \/ CallEncryptFolder
    \/ CallDecryptFile
    \/ CallerSave
    \/ Damage

Spec == Init /\ [][Next]_vars

(***************************************************************************)
(* The claims.                                                             *)
(***************************************************************************)
entropyFor(pp, e) == password_strength(pp, user_inputs(e)).entropy

inSuggestion == pc \in {"mrp_generate", "mrp_check", "mls_suggested"}

\* C1: key derivation is never invoked with a passphrase whose estimated
\* entropy is below 100 bits: it is reached only with the passphrase that
\* check_passphrase accepted in the same flow.
C1_ThresholdGating ==
    /\ \A i \in 1..Len(derived) :
          entropyFor(derived[i].passphrase, derived[i].email) >= 100
    /\ pc = "mls_derive" => ok /\ entropyFor(passphrase, email) >= 100

\* a derivation with a passphrase of exactly 100 bits, after a rejection
C1_Witness ==
    /\ pc = "mls_return"
    /\ Len(derived) = 1
    /\ suggested
    /\ entropyFor(derived[1].passphrase, derived[1].email) = 100

\* C6: the passphrase handed to key derivation is the one most recently typed
\* by the user, never the generated suggestion, and make_random_phrase runs
\* only after a rejected passphrase.
C6_NoSilentSubstitution ==
    /\ \A i \in 1..Len(derived) : derived[i].passphrase = typed
    /\ pc = "mls_derive" => passphrase = typed
    /\ inSuggestion =>
          /\ ~ok
          /\ passphrase = typed
          /\ entropyFor(typed, email) < 100

\* a derivation in a flow that printed a suggestion before
C6_Witness ==
    /\ Len(derived) = 1
    /\ suggested
    /\ derived[1].passphrase = typed

\* C9: the email is read once; a rejected passphrase leads only into the
\* suggestion and back to the prompt, never to the derivation or the end; and
\* once the user has typed a passphrase that passes, the flow derives the key
\* exactly once, with the email read at the start, and returns it.
C9_Reprompt ==
    /\ [](emailReads <= 1 /\ Len(derived) <= 1)
    /\ [][ /\ (pc # "mls_email" /\ pc' # "mls_email" => email' = email)
           /\ ((pc = "mls_checked" /\ ~ok) \/ inSuggestion
                 => /\ pc' \in {"mrp_generate", "mrp_check", "mls_suggested",
                                "mls_getpass"}
                    /\ derived' = derived /\ userKey' = userKey) ]_vars
    /\ (pc = "mls_checked" /\ ok)
          ~> (/\ pc = "mls_return"
              /\ emailReads = 1
              /\ derived = <<[email |-> email, passphrase |-> typed]>>
              /\ userKey = from_passphrase(email, typed))

\* the identity is returned after a rejected passphrase and a new prompt
C9_Witness ==
    /\ pc = "mls_return"
    /\ suggested
    /\ emailReads = 1
    /\ Len(derived) = 1
    /\ userKey = from_passphrase(email, typed)

\* C10: make_random_phrase returns only a phrase that check_passphrase
\* accepts for the same email; a generated phrase that fails sends it back to
\* the generator, so it ends only when the generator produces such a phrase.
C10_SuggestionPasses ==
    /\ [](pc = "mls_suggested" => entropyFor(p, email) >= 100)
    /\ [][pc = "mrp_check" =>
             /\ entropyFor(p, email) >= 100 => pc' = "mls_suggested"
             /\ entropyFor(p, email) < 100 => pc' = "mrp_generate" ]_vars

\* a suggestion returned for an email whose user name is in the word list
C10_Witness ==
    /\ pc = "mls_suggested"
    /\ \E i \in 1..Len(p) : p[i] = user_inputs(email)[1]
    /\ entropyFor(p, email) >= 100



(***************************************************************************)
(* The claims about the file operations.                                   *)
(***************************************************************************)
decrypting == mode \in {"decrypt", "decrypt_file"}
encrypting == mode \in {"encrypt", "encrypt_file", "encrypt_folder"}

\* decrypt_file has read its input and is past the base64 step
pastDecoding ==
    /\ decrypting
    /\ pc \in {"df_parse", "dec_match", "dec_verify", "dec_open", "md_open",
               "md_write", "returned", "done", "raised"}
    /\ rawRead # <<>>

\* decrypt_file has returned
hasReturned == decrypting /\ pc \in {"md_open", "md_write", "returned", "done"}

\* the public keys a seal was addressed to: the caller's list and the sender
addressees(s) ==
    {s.sender.publicKey}
    \cup {recipientKey(s.recipients[i]) : i \in 1..Len(s.recipients)}

\* C2: decrypt_file, applied by any recipient of the set or by the sender to
\* the container encrypt_file produced, returns the file name and the
\* plaintext that went in.
C2_RoundTrip ==
    ( /\ pastDecoding
      /\ ~call.base64
      /\ sealed.op = "encrypt_file"
      /\ contents = sealed.contents
      /\ call.recipient_key.type = "UserLock"
      /\ call.recipient_key.publicKey \in addressees(sealed) )
    => /\ pc # "raised"
       /\ hasReturned =>
             ret = [kind |-> "pair", bytes |-> sealed.plaintext,
                    filename |-> basename(sealed.file_path)]

\* the sender, absent from the caller's list, opens what encrypt_file made
C2_Witness ==
    /\ mode = "decrypt_file"
    /\ pc = "returned"
    /\ ~call.base64
    /\ sealed.op = "encrypt_file"
    /\ contents = sealed.contents
    /\ call.recipient_key = sealed.sender
    /\ \A i \in 1..Len(sealed.recipients) :
          recipientKey(sealed.recipients[i]) # sealed.sender.publicKey
    /\ ret = [kind |-> "pair", bytes |-> <<104, 105, 33>>, filename |-> pName]

\* C3: a run of main_encrypt or main_decrypt that ends in an error has
\* created and written no output file; the output is opened only when the
\* whole seal or open has succeeded.
C3_NoPartialOutput ==
    mode \in {"encrypt", "decrypt"} =>
       /\ pc \in {"raised", "exited"} =>
             /\ opened = {}
             /\ \A q \in PathSet \ {call.file_path} : fs[q] = fsStart[q]
       /\ opened # {} =>
             /\ mode = "encrypt" =>
                   /\ ret.kind = "bytes"
                   /\ ret.bytes = sealed.contents
                   /\ pc \in {"me_write", "done"}
             /\ mode = "decrypt" =>
                   /\ ret.kind = "pair"
                   /\ dtrace[Len(dtrace)] = "Opened"
                   /\ pc \in {"md_write", "done"}

\* main_encrypt stopped by an invalid recipient after the input was read
C3_Witness ==
    /\ mode = "encrypt"
    /\ pc = "raised"
    /\ error = "InvalidIdentifier"
    /\ readInput
    /\ opened = {}

someInvalid ==
    \E i \in 1..Len(call.recipients) : recipientKey(call.recipients[i]) < 0

someWrongType ==
    \/ \E i \in 1..Len(call.recipients) :
          call.recipients[i].type \notin {"str", "UserLock"}
    \/ call.sender.type # "UserLock"

\* C5 as stated: with an invalid recipient in the list the operation aborts,
\* returns no container and has not read the input file or folder.
C5_InvalidBeforeRead ==
    (encrypting /\ call # NoCall /\ someInvalid) =>
       /\ ~readInput
       /\ ret.kind = "none"

\* C5, amended: every recipient and the sender are type-checked before
\* anything else happens; with an invalid recipient the operation aborts
\* with an error and returns no container; the input has not been read when
\* the recipient or the sender has the wrong type, and has been read when a
\* string is rejected as an identifier, which MiniLockFile.new does.
C5_InvalidAborts ==
    (encrypting /\ call # NoCall) =>
       /\ someInvalid =>
             /\ ret.kind = "none"
             /\ pc \in {"ef_validate", "ef_path", "ef_read", "ef_seal",
                        "ed_validate", "ed_path", "ed_zip", "ed_seal",
                        "raised"}
             /\ pc = "raised" =>
                   error \in {"TypeError", "OSError", "InvalidIdentifier"}
       /\ someWrongType => ~readInput
       /\ (pc = "raised" /\ error = "InvalidIdentifier") =>
             readInput /\ ~someWrongType /\ someInvalid
       /\ pc \in {"ef_path", "ef_read", "ef_seal", "ed_path", "ed_zip",
                  "ed_seal"} => ~someWrongType

\* encrypt_file aborted by a mistyped identifier next to a valid one
C5_Witness ==
    /\ mode = "encrypt_file"
    /\ pc = "raised"
    /\ error = "InvalidIdentifier"
    /\ readInput
    /\ recipientKey(call.recipients[1]) >= 0
    /\ ret.kind = "none"

decryptStates == <<"Parsed", "RecipientMatched", "BodyVerified", "Opened">>

\* C7: decryption goes through Parsed, RecipientMatched, BodyVerified and
\* Opened in that order; each step advances or ends in a named failure, no
\* state is entered twice, and the file name and plaintext are returned only
\* from Opened.
C7_DecryptStates ==
    /\ isPrefix(dtrace, decryptStates)
    /\ pc = "dec_match" => dtrace = <<"Parsed">> /\ parsed.ok
    /\ pc = "dec_verify" => Len(dtrace) = 2 /\ parsed.ok /\ fileInfo.ok
    /\ pc = "dec_open" => Len(dtrace) = 3
    /\ Len(dtrace) >= 3 =>
          /\ parsed.ok
          /\ fileInfo.ok
          /\ chunksVerify(fileInfo.fileKey, fileInfo.fileNonce, parsed.chunks,
                          fileInfo.chunkHashes)
    /\ ret.kind = "pair" <=> dtrace = decryptStates
    /\ pc \in {"md_open", "md_write"} => ret.kind = "pair"
    /\ (decrypting /\ pc = "raised") =>
          /\ ret.kind = "none"
          /\ Len(dtrace) = 0 =>
                error \in {"TypeError", "OSError", "binascii.Error",
                           "TruncatedContainer", "UnsupportedVersion"}
          /\ Len(dtrace) = 1 => error = "NoMatchingRecipient"
          /\ Len(dtrace) = 2 => error = "AuthenticationFailure"
          /\ Len(dtrace) < 3

\* main_decrypt has written the plaintext after going through all four
C7_Witness ==
    /\ mode = "decrypt"
    /\ pc = "done"
    /\ dtrace = decryptStates
    /\ fs[ret.filename] = File(ret.bytes)

\* C8: a file written by the encrypt mode with --base64 decrypts with
\* base64=True to what the binary container gives: decoding gives back the
\* container that was encoded, and without the option the container is
\* written and parsed as it is.
C8_Base64RoundTrip ==
    /\ written # NoWrite =>
          written.data = IF written.base64
                         THEN b64encode(written.seal.contents)
                         ELSE written.seal.contents
    /\ ( /\ pastDecoding
         /\ call.file_path = written.path
         /\ rawRead = written.data
         /\ call.base64 = written.base64 )
       => /\ contents = written.seal.contents
          /\ error # "binascii.Error"
          /\ ( /\ call.recipient_key.type = "UserLock"
               /\ call.recipient_key.publicKey \in addressees(written.seal) )
             => /\ pc # "raised"
                /\ hasReturned =>
                      ret = [kind |-> "pair",
                             bytes |-> written.seal.plaintext,
                             filename |-> written.seal.fileName]

\* the decrypt mode has opened a base64 file of the encrypt mode
C8_Witness ==
    /\ mode = "decrypt"
    /\ pc = "done"
    /\ call.base64
    /\ written.base64
    /\ call.file_path = written.path
    /\ rawRead = written.data
    /\ rawRead # written.seal.contents
    /\ ret = [kind |-> "pair", bytes |-> written.seal.plaintext,
              filename |-> written.seal.fileName]

=============================================================================
